---- MODULE Spec2Model ----
(***************************************************************************)
(* Model of the confession board of src/app.py: the upload handler         *)
(* (validation, generated storage name, file write, row insert), the       *)
(* listing and the 413 handler, run by concurrent request workers.         *)
(*                                                                         *)
(* Text values (form fields, filenames) are sequences of one-character     *)
(* strings.  The symbol "zh" stands for one non-ASCII character (a CJK     *)
(* ideograph) that has no ASCII decomposition.  File contents are          *)
(* sequences of byte values.                                               *)
(***************************************************************************)
EXTENDS Integers, Sequences, FiniteSets, TLC

VARIABLES posts, files, pc, local, issued, now, listing, last, client

vars == <<posts, files, pc, local, issued, now, listing, last, client>>

\* ------------------------------------------------------------------ bounds
NumWorkers == 2
NumTokens == 2
MaxClock == 2

Workers == 1..NumWorkers

\* --------------------------------------------------------------- constants
\* app.config["MAX_CONTENT_LENGTH"]
MAX_CONTENT_LENGTH == 10 * 1024 * 1024

ALLOWED_EXTENSIONS ==
    { <<"p","n","g">>, <<"j","p","g">>, <<"j","p","e","g">>,
      <<"g","i","f">>, <<"w","e","b","p">> }

\* name[:120] and description[:2000]
NameMax == 120
DescriptionMax == 2000

\* ------------------------------------------------------------ text helpers
Min(a, b) == IF a < b THEN a ELSE b

UpperLetters ==
    <<"A","B","C","D","E","F","G","H","I","J","K","L","M",
      "N","O","P","Q","R","S","T","U","V","W","X","Y","Z">>
LowerLetters ==
    <<"a","b","c","d","e","f","g","h","i","j","k","l","m",
      "n","o","p","q","r","s","t","u","v","w","x","y","z">>
Digits == {"0","1","2","3","4","5","6","7","8","9"}

Range(s) == { s[i] : i \in 1..Len(s) }

\* str.lower(), one character
LowerChar(c) ==
    IF \E i \in 1..26 : UpperLetters[i] = c
    THEN LowerLetters[CHOOSE i \in 1..26 : UpperLetters[i] = c]
    ELSE c

\* str.lower()
lower(s) == [i \in 1..Len(s) |-> LowerChar(s[i])]

IsSpace(c) == c = " "

\* s[:n]
Take(s, n) == SubSeq(s, 1, Min(n, Len(s)))

\* str.strip(): whitespace removed at both ends
strip(s) ==
    LET keep == { i \in 1..Len(s) : ~IsSpace(s[i]) }
    IN  IF keep = {} THEN <<>>
        ELSE SubSeq(s, CHOOSE i \in keep : \A j \in keep : i <= j,
                       CHOOSE i \in keep : \A j \in keep : j <= i)

\* str.rfind("."), 1-based; 0 when there is no "."
LastDot(s) ==
    LET dots == { i \in 1..Len(s) : s[i] = "." }
    IN  IF dots = {} THEN 0 ELSE CHOOSE i \in dots : \A j \in dots : j <= i

\* filename.rsplit(".", 1)[1]
rsplit_ext(s) == SubSeq(s, LastDot(s) + 1, Len(s))

\* is_allowed_file
is_allowed_file(filename) ==
    IF filename = <<>> \/ LastDot(filename) = 0
    THEN FALSE
    ELSE lower(rsplit_ext(filename)) \in ALLOWED_EXTENSIONS

\* ------------------------------------------------- werkzeug secure_filename
\* characters that survive encode("ascii", "ignore")
IsAscii(c) == c # "zh"

\* [A-Za-z0-9_.-], the characters _filename_ascii_strip_re keeps
IsSafeChar(c) ==
    \/ c \in Range(UpperLetters)
    \/ c \in Range(LowerLetters)
    \/ c \in Digits
    \/ c \in {"_", ".", "-"}

\* encode("ascii", "ignore"), then every path separator replaced by " "
RECURSIVE AsciiNoSeparators(_)
AsciiNoSeparators(s) ==
    IF s = <<>> THEN <<>>
    ELSE LET c == Head(s)
             r == AsciiNoSeparators(Tail(s))
         IN  IF ~IsAscii(c) THEN r
             ELSE IF c = "/" THEN <<" ">> \o r
             ELSE <<c>> \o r

\* one "_" for every run of whitespace inside s (s has none at its ends)
RECURSIVE CollapseSpaces(_)
CollapseSpaces(s) ==
    IF s = <<>> THEN <<>>
    ELSE IF IsSpace(Head(s))
         THEN IF Len(s) > 1 /\ IsSpace(s[2])
              THEN CollapseSpaces(Tail(s))
              ELSE <<"_">> \o CollapseSpaces(Tail(s))
         ELSE <<Head(s)>> \o CollapseSpaces(Tail(s))

\* "_".join(s.split())
JoinWords(s) == CollapseSpaces(strip(s))

\* str.strip("._")
StripDotsUnderscores(s) ==
    LET keep == { i \in 1..Len(s) : s[i] \notin {".", "_"} }
    IN  IF keep = {} THEN <<>>
        ELSE SubSeq(s, CHOOSE i \in keep : \A j \in keep : i <= j,
                       CHOOSE i \in keep : \A j \in keep : j <= i)

\* werkzeug.utils.secure_filename on a POSIX host
secure_filename(filename) ==
    LET ascii  == AsciiNoSeparators(filename)
        joined == JoinWords(ascii)
        safe   == SelectSeq(joined, IsSafeChar)
    IN  StripDotsUnderscores(safe)

\* str.rfind("/"), 1-based; 0 when there is no "/"
LastSep(s) ==
    LET seps == { i \in 1..Len(s) : s[i] = "/" }
    IN  IF seps = {} THEN 0 ELSE CHOOSE i \in seps : \A j \in seps : j <= i

\* os.path.splitext(p)[1]: from the last "." of the basename on, unless only
\* dots precede it in the basename
splitext_ext(p) ==
    LET dot == LastDot(p)
        sep == LastSep(p)
    IN  IF dot > sep /\ \E k \in (sep + 1)..(dot - 1) : p[k] # "."
        THEN SubSeq(p, dot, Len(p))
        ELSE <<>>

\* ------------------------------------------------------------- the request
\* request.form.get(key) or "": a missing field reads as the empty text
form_get_or_empty(field) == IF field.present THEN field.value ELSE <<>>

\* Pillow's Image.open(stream).verify() succeeds: the bytes start with the
\* PNG signature (the decoder itself is outside the repository)
DecodesAsImage(data) == Len(data) >= 2 /\ data[1] = 137 /\ data[2] = 80

PngBytes  == <<137, 80, 78, 71>>
TextBytes == <<104, 105, 33>>

\* the limit taken as exclusive: a body of exactly the limit is refused too
TooLarge_at_limit(content_length) == content_length >= MAX_CONTENT_LENGTH

\* werkzeug compares Content-Length with MAX_CONTENT_LENGTH when the handler
\* first touches request.form: a 413 is raised when the length is greater
TooLarge(content_length) == content_length > MAX_CONTENT_LENGTH

\* is_valid_image without the final seek(position)
is_valid_image_no_restore(stream, k) ==
    [ok |-> DecodesAsImage(stream.data), stream |-> [stream EXCEPT !.pos = k]]

\* is_valid_image: tell, seek(0), verify (which leaves the stream at some
\* offset k, on success and on failure alike), seek(position)
is_valid_image(stream, k) ==
    LET position == stream.pos
    IN  IF DecodesAsImage(stream.data)
        THEN [ok |-> TRUE,  stream |-> [stream EXCEPT !.pos = position]]
        ELSE [ok |-> FALSE, stream |-> [stream EXCEPT !.pos = k]]

\* the validation with the description checked before the name
Validate_description_first(req, k) ==
    LET name        == strip(form_get_or_empty(req.name))
        description == strip(form_get_or_empty(req.description))
        file        == req.image
        stream0     == [data |-> file.data, pos |-> 0]
    IN  IF description = <<>>
        THEN [resp |-> "description required", checks |-> <<"description">>,
              stream |-> stream0]
        ELSE IF name = <<>>
        THEN [resp |-> "name required",
              checks |-> <<"description", "name">>, stream |-> stream0]
        ELSE IF ~file.present \/ file.filename = <<>>
        THEN [resp |-> "image required",
              checks |-> <<"description", "name", "image">>, stream |-> stream0]
        ELSE IF ~is_allowed_file(file.filename)
        THEN [resp |-> "unsupported format",
              checks |-> <<"description", "name", "image", "extension">>,
              stream |-> stream0]
        ELSE LET v == is_valid_image(stream0, k)
             IN  [resp |-> IF v.ok THEN "ok" ELSE "not a valid image",
                  checks |-> <<"description", "name", "image", "extension", "content">>,
                  stream |-> v.stream]

\* The validation of upload(), in the order of the if statements.  checks is
\* the sequence of checks evaluated; resp is "ok" or the flashed message.
Validate(req, k) ==
    LET name        == strip(form_get_or_empty(req.name))
        description == strip(form_get_or_empty(req.description))
        file        == req.image
        stream0     == [data |-> file.data, pos |-> 0]
    IN  IF name = <<>>
        THEN [resp |-> "name required", checks |-> <<"name">>, stream |-> stream0]
        ELSE IF description = <<>>
        THEN [resp |-> "description required",
              checks |-> <<"name", "description">>, stream |-> stream0]
        ELSE IF ~file.present \/ file.filename = <<>>
        THEN [resp |-> "image required",
              checks |-> <<"name", "description", "image">>, stream |-> stream0]
        ELSE IF ~is_allowed_file(file.filename)
        THEN [resp |-> "unsupported format",
              checks |-> <<"name", "description", "image", "extension">>,
              stream |-> stream0]
        ELSE LET v == is_valid_image(stream0, k)
             IN  [resp |-> IF v.ok THEN "ok" ELSE "not a valid image",
                  checks |-> <<"name", "description", "image", "extension", "content">>,
                  stream |-> v.stream]

\* the sanitised client filename used as the storage name
unique_filename_from_client_name(token, filename) == secure_filename(filename)

\* f"{uuid.uuid4().hex}{ext.lower()}" with ext from the sanitised name
unique_filename(token, filename) ==
    token \o lower(splitext_ext(secure_filename(filename)))

\* uuid.uuid4().hex: the 32 hex digits are scaled to one; a value is issued
\* once (the generator's 122 random bits are taken as never repeating)
HexDigits == <<"0","1","2","3","4","5","6","7","8","9","a","b","c","d","e","f">>
Tokens == { <<HexDigits[i]>> : i \in 1..NumTokens }
uuid4_hex(used) == Tokens \ used

\* FileStorage.save(dst): copies the stream from its current position
SavedBytes(stream) == SubSeq(stream.data, stream.pos + 1, Len(stream.data))

\* open(dst, "wb") and write: the file is created or replaced
WriteFile(fs, path, bytes) ==
    [n \in DOMAIN fs \cup {path} |-> IF n = path THEN bytes ELSE fs[n]]

\* the insert done as a merge keyed by name: a row of the same name is replaced
InsertPost_replacing(table, name, description, image_filename, clock) ==
    LET row == [id             |-> Len(table) + 1,
                name           |-> Take(name, NameMax),
                description    |-> Take(description, DescriptionMax),
                image_filename |-> image_filename,
                created_at     |-> clock]
    IN  IF \E i \in 1..Len(table) : table[i].name = row.name
        THEN [i \in 1..Len(table) |-> IF table[i].name = row.name THEN row ELSE table[i]]
        ELSE Append(table, row)

\* db.session.add(post); db.session.commit(): id is the next rowid and
\* created_at defaults to datetime.utcnow() at the insert
InsertPost(table, name, description, image_filename, clock) ==
    Append(table, [id             |-> Len(table) + 1,
                   name           |-> Take(name, NameMax),
                   description    |-> Take(description, DescriptionMax),
                   image_filename |-> image_filename,
                   created_at     |-> clock])

\* ORDER BY created_at DESC: one row put in its place; rows of equal
\* created_at come in an order the database chooses (tieFirst)
RECURSIVE InsertDesc(_, _, _)
InsertDesc(row, sorted, tieFirst) ==
    IF sorted = <<>> THEN <<row>>
    ELSE IF \/ row.created_at > Head(sorted).created_at
            \/ (tieFirst /\ row.created_at = Head(sorted).created_at)
         THEN <<row>> \o sorted
         ELSE <<Head(sorted)>> \o InsertDesc(row, Tail(sorted), tieFirst)

\* the query without its order_by: rows in rowid order
order_by_rowid(table, tieFirst) == table

\* Post.query.order_by(Post.created_at.desc()).all()
RECURSIVE order_by_created_at_desc(_, _)
order_by_created_at_desc(table, tieFirst) ==
    IF table = <<>> THEN <<>>
    ELSE InsertDesc(table[Len(table)],
                    order_by_created_at_desc(SubSeq(table, 1, Len(table) - 1), tieFirst),
                    tieFirst)

\* --------------------------------------------------------------- the inputs
Absent   == [present |-> FALSE, value |-> <<>>]
Field(v) == [present |-> TRUE, value |-> v]
NoFile   == [present |-> FALSE, filename |-> <<>>, data |-> <<>>]
Upload(filename, data) == [present |-> TRUE, filename |-> filename, data |-> data]

Request(n, name, description, image) ==
    [content_length |-> n, name |-> name, description |-> description, image |-> image]

NullReq == Request(0, Absent, Absent, NoFile)

XPng   == <<"x", ".", "p", "n", "g">>
XPNG   == <<"x", ".", "P", "N", "G">>
DotPng == <<".", "p", "n", "g">>
ZhJpg  == <<"zh", ".", "j", "p", "g">>
XTxt   == <<"x", ".", "t", "x", "t">>
XBare  == <<"x">>
UpXPng == <<".", ".", "/", "x", " ", "y", ".", "p", "n", "g">>

GoodName == Field(<<" ", "x", " ">>)
GoodDesc == Field(<<"y">>)
Blank    == Field(<<" ">>)

\* The requests of the concurrent specification: two accepted ones (the
\* second loses its stem in secure_filename), one rejected by each check, and
\* one over the size limit.
Requests ==
    { Request(MAX_CONTENT_LENGTH - 1, GoodName, GoodDesc, Upload(XPng, PngBytes)),
      Request(MAX_CONTENT_LENGTH - 1, GoodName, GoodDesc, Upload(DotPng, PngBytes)),
      Request(MAX_CONTENT_LENGTH - 1, Blank, GoodDesc, Upload(XPng, PngBytes)),
      Request(MAX_CONTENT_LENGTH - 1, GoodName, Absent, Upload(XPng, PngBytes)),
      Request(MAX_CONTENT_LENGTH - 1, GoodName, GoodDesc, NoFile),
      Request(MAX_CONTENT_LENGTH - 1, GoodName, GoodDesc, Upload(XTxt, PngBytes)),
      Request(MAX_CONTENT_LENGTH - 1, GoodName, GoodDesc, Upload(XPng, TextBytes)),
      Request(MAX_CONTENT_LENGTH + 1, GoodName, GoodDesc, Upload(XPng, PngBytes)) }

\* The requests of the listing specification.
ListRequests ==
    { Request(MAX_CONTENT_LENGTH - 1, GoodName, GoodDesc, Upload(XPng, PngBytes)),
      Request(MAX_CONTENT_LENGTH - 1, Blank, GoodDesc, Upload(XPng, PngBytes)),
      Request(MAX_CONTENT_LENGTH + 1, GoodName, GoodDesc, Upload(XPng, PngBytes)) }

\* The requests of the form specification: every combination of the fields.
ContentLengths == { MAX_CONTENT_LENGTH - 1, MAX_CONTENT_LENGTH, MAX_CONTENT_LENGTH + 1 }
FormNames      == { Absent, Blank, GoodName }
FormDescs      == { Absent, Blank, GoodDesc }
FormFilenames  == { <<>>, XPng, XPNG, DotPng, ZhJpg, XTxt, XBare, UpXPng }
FormRequests ==
    { Request(n, a, d, u) :
          n \in ContentLengths, a \in FormNames, d \in FormDescs,
          u \in {NoFile} \cup { Upload(f, b) : f \in FormFilenames,
                                               b \in {PngBytes, TextBytes} } }

\* What the form client may send: its request, also with the file named after
\* a stored file (whose name it saw in the listing).
Resend(req, stored) ==
    {req} \cup IF req.image.present
               THEN { [req EXCEPT !.image.filename = n] : n \in stored }
               ELSE {}

ValidationMsgs ==
    { "name required", "description required", "image required",
      "unsupported format", "not a valid image" }

\* the offsets verify() may leave the stream at: after the header, or at the end
ReadOffsets(data) == { Min(2, Len(data)), Len(data) }

\* ------------------------------------------------------------------ state
\* posts    the Post table, in rowid order
\* files    the storage directory: filename -> bytes
\* pc       where each request worker is: "idle", "save" (validated, file not
\*          yet written), "commit" (file written, row not yet inserted)
\* local    the handler's local variables of the request a worker is serving
\* issued   the values uuid4 has returned
\* now      datetime.utcnow()
\* listing  the rows of the most recent GET / response
\* last     the most recent response: its request, the flashed message, the
\*          checks evaluated, the storage name, and what the handler's steps
\*          changed (files and rows that appeared, whether table or directory
\*          differ from what the responding step found)
\* client   the request the client of the form specification submits
IdleLocal ==
    [req |-> NullReq, name |-> <<>>, description |-> <<>>,
     stream |-> [data |-> <<>>, pos |-> 0], unique_filename |-> <<>>, nfiles |-> 0]

Response(route, req, resp, checks, fname, nfiles, nrows, changed) ==
    [route |-> route, req |-> req, resp |-> resp, checks |-> checks,
     unique_filename |-> fname, nfiles |-> nfiles, nrows |-> nrows,
     changed |-> changed]

NewFiles == Cardinality(DOMAIN files' \ DOMAIN files)
NewRows  == Len(posts') - Len(posts)
Changed  == posts' # posts \/ files' # files

InitStore ==
    /\ posts = <<>>
    /\ files = [n \in {} |-> <<>>]
    /\ pc = [w \in Workers |-> "idle"]
    /\ local = [w \in Workers |-> IdleLocal]
    /\ issued = {}
    /\ now = 0
    /\ listing = <<>>
    /\ last = Response("none", NullReq, "none", <<>>, <<>>, 0, 0, FALSE)

Init == InitStore /\ client = NullReq

\* ---------------------------------------------------------------- actions
\* @app.errorhandler(413)
request_entity_too_large(w, req) ==
    /\ pc[w] = "idle"
    /\ TooLarge(req.content_length)
    /\ UNCHANGED <<posts, files, pc, local, issued, now, listing, client>>
    /\ last' = Response("POST /upload", req, "file too large", <<>>, <<>>,
                        NewFiles, NewRows, Changed)

\* the rejection with the file saved before its content is checked
upload_reject_saves_first(w, req, k) ==
    LET v == Validate(req, k)
    IN  /\ pc[w] = "idle"
        /\ ~TooLarge(req.content_length)
        /\ v.resp # "ok"
        /\ files' = IF v.resp = "not a valid image"
                    THEN WriteFile(files, secure_filename(req.image.filename),
                                   req.image.data)
                    ELSE files
        /\ UNCHANGED <<posts, pc, local, issued, now, listing, client>>
        /\ last' = Response("POST /upload", req, v.resp, v.checks, <<>>,
                            NewFiles, NewRows, Changed)

\* POST /upload, a validation check fails: flash and redirect
upload_reject(w, req, k) ==
    LET v == Validate(req, k)
    IN  /\ pc[w] = "idle"
        /\ ~TooLarge(req.content_length)
        /\ v.resp # "ok"
        /\ UNCHANGED <<posts, files, pc, local, issued, now, listing, client>>
        /\ last' = Response("POST /upload", req, v.resp, v.checks, <<>>,
                            NewFiles, NewRows, Changed)

\* POST /upload, every check passes: the storage name is generated
upload_accept(w, req, k) ==
    LET v == Validate(req, k)
    IN  /\ pc[w] = "idle"
        /\ ~TooLarge(req.content_length)
        /\ v.resp = "ok"
        /\ \E token \in uuid4_hex(issued) :
              /\ issued' = issued \cup {token}
              /\ local' = [local EXCEPT ![w] =
                    [req             |-> req,
                     name            |-> strip(form_get_or_empty(req.name)),
                     description     |-> strip(form_get_or_empty(req.description)),
                     stream          |-> v.stream,
                     unique_filename |-> unique_filename(token, req.image.filename),
                     nfiles          |-> 0]]
        /\ pc' = [pc EXCEPT ![w] = "save"]
        /\ UNCHANGED <<posts, files, now, listing, last, client>>

\* the file saved under the sanitised client filename, the row keeping the
\* generated name
upload_save_as_client_name(w) ==
    /\ pc[w] = "save"
    /\ files' = WriteFile(files, secure_filename(local[w].req.image.filename),
                          SavedBytes(local[w].stream))
    /\ local' = [local EXCEPT ![w].nfiles = NewFiles]
    /\ pc' = [pc EXCEPT ![w] = "commit"]
    /\ UNCHANGED <<posts, issued, now, listing, last, client>>

\* file.save(save_path)
upload_save(w) ==
    /\ pc[w] = "save"
    /\ files' = WriteFile(files, local[w].unique_filename, SavedBytes(local[w].stream))
    /\ local' = [local EXCEPT ![w].nfiles = NewFiles]
    /\ pc' = [pc EXCEPT ![w] = "commit"]
    /\ UNCHANGED <<posts, issued, now, listing, last, client>>

\* the failure of file.save caught and ignored: the handler goes on to commit
upload_save_fails_swallowed(w, created) ==
    /\ pc[w] = "save"
    /\ files' = IF created THEN WriteFile(files, local[w].unique_filename, <<>>)
                ELSE files
    /\ local' = [local EXCEPT ![w].nfiles = NewFiles]
    /\ pc' = [pc EXCEPT ![w] = "commit"]
    /\ UNCHANGED <<posts, issued, now, listing, last, client>>

\* file.save raises (directory unavailable, disk full): the exception leaves
\* upload(); the file may have been created empty before the write failed
upload_save_fails(w, created) ==
    /\ pc[w] = "save"
    /\ files' = IF created THEN WriteFile(files, local[w].unique_filename, <<>>)
                ELSE files
    /\ local' = [local EXCEPT ![w] = IdleLocal]
    /\ pc' = [pc EXCEPT ![w] = "idle"]
    /\ UNCHANGED <<posts, issued, now, listing, client>>
    /\ last' = Response("POST /upload", local[w].req, "server error", <<>>,
                        local[w].unique_filename, NewFiles, NewRows, Changed)

\* db.session.add(post); db.session.commit(); flash success; redirect
upload_commit(w) ==
    /\ pc[w] = "commit"
    /\ posts' = InsertPost(posts, local[w].name, local[w].description,
                           local[w].unique_filename, now)
    /\ local' = [local EXCEPT ![w] = IdleLocal]
    /\ pc' = [pc EXCEPT ![w] = "idle"]
    /\ UNCHANGED <<files, issued, now, listing, client>>
    /\ last' = Response("POST /upload", local[w].req, "success", <<>>,
                        local[w].unique_filename, local[w].nfiles, NewRows, Changed)

\* db.session.commit() raises: the exception leaves upload(), no row
upload_commit_fails(w) ==
    /\ pc[w] = "commit"
    /\ local' = [local EXCEPT ![w] = IdleLocal]
    /\ pc' = [pc EXCEPT ![w] = "idle"]
    /\ UNCHANGED <<posts, files, issued, now, listing, client>>
    /\ last' = Response("POST /upload", local[w].req, "server error", <<>>,
                        local[w].unique_filename, local[w].nfiles, NewRows, Changed)

\* the request is aborted inside upload() (worker killed): no response
abort(w) ==
    /\ pc[w] \in {"save", "commit"}
    /\ local' = [local EXCEPT ![w] = IdleLocal]
    /\ pc' = [pc EXCEPT ![w] = "idle"]
    /\ UNCHANGED <<posts, files, issued, now, listing, last, client>>

\* GET /upload
upload_get(w) ==
    /\ pc[w] = "idle"
    /\ UNCHANGED <<posts, files, pc, local, issued, now, listing, client>>
    /\ last' = Response("GET /upload", NullReq, "form", <<>>, <<>>,
                        NewFiles, NewRows, Changed)

\* GET /
index(w, tieFirst) ==
    /\ pc[w] = "idle"
    /\ listing' = order_by_created_at_desc(posts, tieFirst)
    /\ UNCHANGED <<posts, files, pc, local, issued, now, client>>
    /\ last' = Response("GET /", NullReq, "listing", <<>>, <<>>,
                        NewFiles, NewRows, Changed)

\* the wall clock advances
Tick ==
    /\ now < MaxClock
    /\ now' = now + 1
    /\ UNCHANGED <<posts, files, pc, local, issued, listing, last, client>>

\* Concurrent workers serving uploads; writes and commits may fail, and a
\* request may be aborted.
Next ==
    \/ \E w \in Workers, req \in Requests : request_entity_too_large(w, req)
    \/ \E w \in Workers, req \in Requests :
          \E k \in ReadOffsets(req.image.data) : upload_reject(w, req, k)
    \/ \E w \in Workers, req \in Requests :
          \E k \in ReadOffsets(req.image.data) : upload_accept(w, req, k)
    \/ \E w \in Workers : upload_save(w)
    \/ \E w \in Workers, created \in BOOLEAN : upload_save_fails(w, created)
    \/ \E w \in Workers : upload_commit(w)
    \/ \E w \in Workers : upload_commit_fails(w)
    \/ \E w \in Workers : abort(w)

Spec == Init /\ [][Next]_vars

\* One worker serving one client, whose request is any combination of the
\* form fields.
FormInit == InitStore /\ client \in FormRequests

FormNext ==
    \/ \E req \in Resend(client, DOMAIN files) : request_entity_too_large(1, req)
    \/ \E req \in Resend(client, DOMAIN files) :
          \E k \in ReadOffsets(req.image.data) : upload_reject(1, req, k)
    \/ \E req \in Resend(client, DOMAIN files) :
          \E k \in ReadOffsets(req.image.data) : upload_accept(1, req, k)
    \/ upload_save(1)
    \/ upload_commit(1)

FormSpec == FormInit /\ [][FormNext]_vars

\* Concurrent workers serving every route while the clock advances.
ListNext ==
    \/ \E w \in Workers, req \in ListRequests : request_entity_too_large(w, req)
    \/ \E w \in Workers, req \in ListRequests :
          \E k \in ReadOffsets(req.image.data) : upload_reject(w, req, k)
    \/ \E w \in Workers, req \in ListRequests :
          \E k \in ReadOffsets(req.image.data) : upload_accept(w, req, k)
    \/ \E w \in Workers : upload_save(w)
    \/ \E w \in Workers : upload_commit(w)
    \/ \E w \in Workers : upload_get(w)
    \/ \E w \in Workers, tieFirst \in BOOLEAN : index(w, tieFirst)
    \/ Tick

ListSpec == Init /\ [][ListNext]_vars

\* ----------------------------------------------------------------- claims
\* The checks of the validation, stated one by one on the request.
Order == <<"name", "description", "image", "extension", "content">>

Fails(check, req) ==
    CASE check = "name"        -> strip(form_get_or_empty(req.name)) = <<>>
      [] check = "description" -> strip(form_get_or_empty(req.description)) = <<>>
      [] check = "image"       -> ~req.image.present \/ req.image.filename = <<>>
      [] check = "extension"   -> ~is_allowed_file(req.image.filename)
      [] check = "content"     -> ~DecodesAsImage(req.image.data)

MsgOf(check) ==
    CASE check = "name"        -> "name required"
      [] check = "description" -> "description required"
      [] check = "image"       -> "image required"
      [] check = "extension"   -> "unsupported format"
      [] check = "content"     -> "not a valid image"

FailingChecks(req) == { i \in 1..Len(Order) : Fails(Order[i], req) }
FirstFailing(req)  == CHOOSE i \in FailingChecks(req) : \A j \in FailingChecks(req) : i <= j

RowsNaming(n) == { i \in 1..Len(posts) : posts[i].image_filename = n }
InFlight(w)   == pc[w] \in {"save", "commit"}

\* C1: a POST /upload rejected by a validation check leaves the Post table
\* and the storage directory exactly as the request found them: no row and no
\* file appears, and nothing stored changes.
C1_RejectionChangesNothing ==
    (last.route = "POST /upload" /\ last.resp \in ValidationMsgs)
        => (~last.changed /\ last.nfiles = 0 /\ last.nrows = 0)

\* C1 witness: an upload with an allowed extension and bytes that are no image
\* was rejected while a post and its file were stored.
C1_Witness ==
    /\ last.resp = "not a valid image"
    /\ Len(posts) >= 1
    /\ DOMAIN files # {}

\* C2: in every state every Post row's image_filename names a file of the
\* storage directory (a file without a row may exist).
C2_EveryRowHasItsFile ==
    \A i \in 1..Len(posts) : posts[i].image_filename \in DOMAIN files

\* C2 witness: a file write has just failed, leaving a file that no row names,
\* while a post is stored.
C2_Witness ==
    /\ last.resp = "server error"
    /\ last.nrows = 0
    /\ Len(posts) >= 1
    /\ \E n \in DOMAIN files : RowsNaming(n) = {}

\* C3: a POST /upload that passes validation and completes made exactly one
\* file appear and exactly one row; that row carries the new file's name, and
\* the name differs from the filename the client supplied.
C3_SuccessCreatesOneFileOneRow ==
    last.resp = "success" =>
        /\ last.nfiles = 1
        /\ last.nrows = 1
        /\ last.unique_filename \in DOMAIN files
        /\ Cardinality(RowsNaming(last.unique_filename)) = 1
        /\ posts[Len(posts)].image_filename = last.unique_filename
        /\ last.unique_filename # last.req.image.filename

\* C3 witness: an upload succeeded whose client filename is the name of a file
\* already stored.
C3_Witness ==
    /\ last.resp = "success"
    /\ last.req.image.filename \in DOMAIN files
    /\ Len(posts) = 2

\* C4: the message of a rejected upload is the one of the first failing check
\* in the order name, description, image, extension, content, and no check
\* after that one was evaluated.
C4_FirstFailingCheckDecides ==
    (last.route = "POST /upload" /\ last.resp \in ValidationMsgs) =>
        /\ FailingChecks(last.req) # {}
        /\ last.resp = MsgOf(Order[FirstFailing(last.req)])
        /\ last.checks = SubSeq(Order, 1, FirstFailing(last.req))

\* C4 witness: a request failing the description check and at least two later
\* checks, but not the name check, was rejected.
C4_Witness ==
    /\ last.resp = "description required"
    /\ Cardinality(FailingChecks(last.req)) >= 3

\* C5 (as claimed): the storage name of every accepted upload is a hex token,
\* a dot and the lowercased text after the last dot of the client filename,
\* which is an allowed extension.
C5_StorageNameKeepsExtension ==
    last.resp = "success" =>
        LET e == lower(rsplit_ext(last.req.image.filename))
        IN  /\ e \in ALLOWED_EXTENSIONS
            /\ \E t \in Tokens : last.unique_filename = t \o <<".">> \o e

\* C6: no two requests in flight write to the same storage path, no request
\* in flight writes to the path of a stored post, and no two Post rows carry
\* the same image_filename.
C6_StorageNamesUnique ==
    /\ \A i, j \in 1..Len(posts) :
          i # j => posts[i].image_filename # posts[j].image_filename
    /\ \A w1, w2 \in Workers :
          (w1 # w2 /\ InFlight(w1) /\ InFlight(w2))
              => local[w1].unique_filename # local[w2].unique_filename
    /\ \A w \in Workers :
          InFlight(w) => RowsNaming(local[w].unique_filename) = {}

\* C6 witness: two requests that supplied the same client filename have both
\* written their file and not yet committed.
C6_Witness ==
    /\ pc[1] = "commit"
    /\ pc[2] = "commit"
    /\ local[1].req.image.filename = local[2].req.image.filename

\* C7: in every listing, a post with a later created_at stands before a post
\* with an earlier one.
C7_ListingNewestFirst ==
    \A i, j \in 1..Len(listing) :
        listing[i].created_at > listing[j].created_at => i < j

\* C7 witness: a listing holds two posts, the one inserted later (greater id)
\* also created later.
C7_Witness ==
    \E i, j \in 1..Len(listing) :
        /\ listing[i].id > listing[j].id
        /\ listing[i].created_at > listing[j].created_at

\* C8 (as claimed): a request of the limit's size or more is answered with
\* the size message and creates no row and no file.
C8_AtLimitRejected ==
    (last.route = "POST /upload" /\ last.req.content_length >= MAX_CONTENT_LENGTH)
        => (last.resp = "file too large" /\ last.nfiles = 0 /\ last.nrows = 0)

\* C8 (amended): a request larger than the limit is answered with the size
\* message and creates nothing; a request of the limit's size or less whose
\* fields are valid is accepted and succeeds.
C8_AboveLimitRejected ==
    /\ (last.route = "POST /upload" /\ last.req.content_length > MAX_CONTENT_LENGTH)
          => (last.resp = "file too large" /\ ~last.changed
              /\ last.nfiles = 0 /\ last.nrows = 0)
    /\ (last.route = "POST /upload" /\ last.req.content_length <= MAX_CONTENT_LENGTH
        /\ FailingChecks(last.req) = {})
          => (last.resp = "success" /\ last.nfiles = 1 /\ last.nrows = 1)
    /\ \A w \in Workers :
          InFlight(w) => local[w].req.content_length <= MAX_CONTENT_LENGTH

\* C8 witness: a valid request of exactly the limit's size succeeded.
C8_Witness ==
    /\ last.resp = "success"
    /\ last.req.content_length = MAX_CONTENT_LENGTH

\* C9: is_valid_image returning True leaves the stream where it found it, and
\* the file of every upload that reached the commit holds all the uploaded
\* bytes.
C9_FullStreamSaved ==
    /\ \A data \in {PngBytes, TextBytes} :
          \A p \in 0..Len(data), k \in ReadOffsets(data) :
              LET v == is_valid_image([data |-> data, pos |-> p], k)
              IN  v.ok => v.stream.pos = p
    /\ \A w \in Workers :
          pc[w] = "commit" =>
              files[local[w].unique_filename] = local[w].req.image.data
    /\ last.resp = "success" =>
          files[last.unique_filename] = last.req.image.data

\* C9 witness: an upload succeeded and its stored file holds the image bytes.
C9_Witness ==
    /\ last.resp = "success"
    /\ last.unique_filename \in DOMAIN files
    /\ Len(files[last.unique_filename]) = Len(PngBytes)

\* C10: every step keeps every Post row as it is, and the table changes only
\* by one row appended by an upload that answers with success.
C10_PostsOnlyAppended ==
    [][ /\ \A i \in 1..Len(posts) : i <= Len(posts') /\ posts'[i] = posts[i]
        /\ posts' # posts =>
              /\ Len(posts') = Len(posts) + 1
              /\ last'.route = "POST /upload"
              /\ last'.resp = "success"
              /\ \E w \in Workers : pc[w] = "commit" /\ pc'[w] = "idle" ]_vars

\* C10 witness: with a post stored and listed, a later upload was rejected.
C10_Witness ==
    /\ Len(posts) >= 1
    /\ Len(listing) >= 1
    /\ last.resp \in ValidationMsgs \cup {"file too large"}

====
